---- MODULE Spec2Model ----
(***************************************************************************)
(* Nexora001: multi-tenant RAG service.  State machine of the document     *)
(* store (documents collection), the crawl orchestration (in-process       *)
(* crawl_jobs dict, durable crawl_jobs collection, background task,        *)
(* spider), file ingestion, vector search, statistics and the process-wide *)
(* RAG pipeline's conversation history.                                    *)
(***************************************************************************)
EXTENDS Integers, Sequences, FiniteSets, TLC

(***************************************************************************)
(* Bounds of the model                                                      *)
(***************************************************************************)
MaxJobs == 2
MaxUploads == 1
MaxAsks == 3
\* longest text handed to the chunker, in characters
MaxTextLen == 6
\* generate_embedding calls made on the generator
MaxCalls == 3
\* key documents in the api_keys collection, regenerations of one document
MaxKeys == 2
MaxRegens == 1

(***************************************************************************)
(* Program constants                                                        *)
(***************************************************************************)
MIN_CONTENT == 100
LINKS_PER_PAGE == 10
TOP_K == 5
MIN_SIMILARITY == 30
HISTORY_WINDOW == 3
CACHE_CAP == 1000

(***************************************************************************)
(* Inputs: tenants, the crawled site, uploaded files, queries               *)
(***************************************************************************)
Tenants == {"A", "B"}
None == "None"
\* an integer argument left at its default None
NoCount == -1
Jobs == 1..MaxJobs

WebUrls == {"u1", "u2"}
\* characters of clean text each page yields, and the links it carries
\* a second site: the hub page h0 links to an anchor, to another site and to
\* twelve pages of its own site; h1 links back to h0 and to the last two
HubUrls == {"h0", "h1", "h2", "h3", "h4", "h5", "h6", "h7", "h8", "h9", "h10",
            "h11", "h12"}
HubLinks == <<"#top", "ext", "h1", "h2", "h3", "h4", "h5", "h6", "h7", "h8",
              "h9", "h10", "h11", "h12">>
ExternalUrls == {"ext"}
Urls == WebUrls \cup HubUrls \cup ExternalUrls
PageLen ==
    [u \in Urls |-> IF u = "u1" THEN 900
                    ELSE IF u \in {"u2", "h0", "h1"} THEN 300 ELSE 40]
\* the href values of the page's anchors, in document order
PageLinks ==
    [u \in Urls |-> IF u = "u1" THEN <<"u2", "ext">>
                    ELSE IF u = "h0" THEN HubLinks
                    ELSE IF u = "h1" THEN <<"h0", "h11", "h12">> ELSE <<>>]
\* urlparse(url).netloc
netloc(u) ==
    IF u \in WebUrls THEN "site" ELSE IF u \in HubUrls THEN "hub"
    ELSE "elsewhere"

FileKinds == {"pdf", "docx"}
FileLens == {40, 600}
FileNames == {"f1"}


CHUNK_SIZE == 500
\* chunk_text: number of chunk objects produced for a text of len characters
\* (chunk_index runs 0..n-1, total_chunks = n)
NumChunks(len) == IF len = 0 THEN 0 ELSE (len + CHUNK_SIZE - 1) \div CHUNK_SIZE

\* generate_embedding(chunk_text): the vector of a chunk is a function of its
\* text, which is chunk idx of the source src; <<>> stands for "no embedding"
generate_embedding(src, idx) ==
    IF src = "u1" THEN (IF idx = 0 THEN <<3, 4>> ELSE <<4, 3>>)
    ELSE IF src = "u2" THEN <<5, 0>>
    ELSE (IF idx = 0 THEN <<0, 5>> ELSE <<-3, 4>>)

\* outcome of handling one chunk: embedded and stored ("emb"); the embedding
\* call raised, which the spider's inner try catches, and the chunk is stored
\* without an embedding ("noemb"); or the chunk's iteration raised and the
\* outer except skipped it ("fail")
ChunkOutcomes == {"emb", "noemb", "fail"}
\* the outcome sequences explored for a page of n chunks: at most one chunk
\* departs from the normal outcome
PageOutcomes(n) ==
    { o \in [1..n -> ChunkOutcomes] :
        \/ \A i \in 1..n : o[i] = "emb"
        \/ o[1] = "noemb" /\ \A i \in 2..n : o[i] = "emb"
        \/ o[n] = "fail" /\ \A i \in 1..(n - 1) : o[i] = "emb" }
\* the crawl options explored: (max_depth, follow_links)
CrawlOptions == {<<0, TRUE>>, <<1, TRUE>>}
\* the urls submitted to POST /api/ingest/url
SeedUrls == {"u1"}
\* what a fetch of u may return: its text, or (u2) an almost empty page
FetchLens(u) == {PageLen[u]} \cup (IF u = "u2" THEN {40} ELSE {})

VARIABLES
    documents,        \* the documents collection: a set of chunk records
    crawl_jobs,       \* ingest.py: in-process dict job -> status
    job_req,          \* arguments the background task was queued with
    task,             \* position of background_crawl_task per job
    db_crawl_jobs,    \* the durable crawl_jobs collection
    spider,           \* Nexora001Spider instance per job
    uploads,          \* number of POST /api/ingest/file requests handled
    last_upload,      \* response of the last file upload
    last_search,      \* result of the last vector_search call
    last_stats,       \* result of the last get_stats call
    conversation_history, \* RAGPipeline.conversation_history (one per process)
    asks,             \* number of ask calls made
    last_prompt,      \* what the last ask handed to _build_prompt
    executor_queue,   \* tasks submitted to the pipeline's ThreadPoolExecutor
    workers,          \* the executor's two worker threads
    chat_sessions,    \* the chat_sessions collection: session_id -> messages
    USE_QDRANT,       \* storage/vector_search.py: backend switch read at import
    qdrant_points,    \* the nexora_embeddings collection of Qdrant
    chunked,          \* input and output of the last chunk_text call
    cache,            \* EmbeddingGenerator.cache: text -> vector
    cache_hits,       \* EmbeddingGenerator.cache_hits
    cache_misses,     \* EmbeddingGenerator.cache_misses
    embed_threads,    \* threads inside generate_embedding on one generator
    embed_log,        \* calls begun, calls completed, provider calls, last call
    api_keys,         \* the api_keys collection: key document id -> document
    users,            \* the users collection: tenant -> status
    last_validate     \* the last validate_api_key call: key given, result

storeVars == <<documents>>
crawlVars == <<crawl_jobs, job_req, task, db_crawl_jobs, spider>>
chatVars == <<conversation_history, asks, last_prompt, executor_queue,
              workers, chat_sessions>>
obsVars == <<uploads, last_upload, last_search, last_stats, chatVars>>
qdrantVars == <<USE_QDRANT, qdrant_points>>
chunkVars == <<chunked>>
embedVars == <<cache, cache_hits, cache_misses, embed_threads, embed_log>>
keyVars == <<api_keys, users, last_validate>>
auxVars == <<qdrantVars, chunkVars, embedVars, keyVars>>

(***************************************************************************)
(* MongoDBStorage: documents                                                *)
(***************************************************************************)
\* insert_one gives each record a fresh _id: the chunk's coordinates plus the
\* first serial number no live record with these coordinates has
FreshId(docs, client_id, source_url, chunk_index) ==
    LET used == { d._id[4] : d \in { e \in docs :
                                        /\ e.client_id = client_id
                                        /\ e.source_url = source_url
                                        /\ e.chunk_index = chunk_index } }
    IN <<client_id, source_url, chunk_index,
         CHOOSE n \in 0..Cardinality(used) :
            n \notin used /\ \A m \in 0..(n - 1) : m \in used>>

\* store_document / store_document_with_embedding: the inserted record
NewDoc(docs, client_id, source_url, source_type, chunk_index, total_chunks, emb) ==
    [_id |-> FreshId(docs, client_id, source_url, chunk_index),
     client_id |-> client_id, source_url |-> source_url,
     source_type |-> source_type, chunk_index |-> chunk_index,
     total_chunks |-> total_chunks, embedding |-> emb]

\* variant: the lookup never finds the page
url_exists_Never(docs, client_id, source_url) ==
    \E d \in docs : d.client_id = client_id /\ d.source_url = source_url
                                            /\ d.source_type = "url"

\* variant: the lookup matches the other tenants' pages
url_exists_OtherTenant(docs, client_id, source_url) ==
    \E d \in docs : d.client_id # client_id /\ d.source_url = source_url

\* url_exists(client_id, source_url)
url_exists(docs, client_id, source_url) ==
    \E d \in docs : d.client_id = client_id /\ d.source_url = source_url

\* the per-chunk loop shared by the spider and the file processors; a chunk
\* whose store call raised is skipped
StoredChunks(docs, client_id, source_url, source_type, n, outcome) ==
    { NewDoc(docs, client_id, source_url, source_type, i, n,
             IF outcome[i + 1] = "emb" THEN generate_embedding(source_url, i)
                                       ELSE <<>>) :
        i \in { k \in 0..(n - 1) : outcome[k + 1] # "fail" } }

\* delete_by_url(client_id, source_url)
delete_by_url(docs, client_id, source_url) ==
    { d \in docs : ~(d.client_id = client_id /\ d.source_url = source_url) }

\* delete_document_by_id(client_id, doc_id)
delete_document_by_id(docs, client_id, doc_id) ==
    { d \in docs : ~(d._id = doc_id /\ d.client_id = client_id) }

(***************************************************************************)
(* MongoDBStorage: crawl jobs                                               *)
(***************************************************************************)
NoJob == [status |-> "none", client_id |-> None, url |-> None,
          pages_crawled |-> 0, documents_created |-> 0,
          error_message |-> None]

\* create_crawl_job(client_id, url, options)
create_crawl_job(client_id, url) ==
    [status |-> "running", client_id |-> client_id, url |-> url,
     pages_crawled |-> 0, documents_created |-> 0,
     error_message |-> None]

\* update_crawl_job(job_id, status, pages_crawled, documents_created,
\* error_message): None arguments leave the field alone
update_crawl_job(job, status, pages_crawled, documents_created, error_message) ==
    [job EXCEPT
        !.status = IF status # None THEN status ELSE @,
        !.pages_crawled = IF pages_crawled # NoCount THEN pages_crawled ELSE @,
        !.documents_created =
            IF documents_created # NoCount THEN documents_created ELSE @,
        !.error_message = IF error_message # None THEN error_message ELSE @]


(***************************************************************************)
(* Crawl orchestration: POST /api/ingest/url, background_crawl_task,        *)
(* CrawlerManager.crawl_url, Nexora001Spider                                *)
(***************************************************************************)
\* chunks_attempted and embed_failures are not attributes of the spider: they
\* count the chunks its loop went through and those whose generate_embedding
\* call raised
NoSpider == [state |-> "none", pages_crawled |-> 0, documents_created |-> 0,
             frontier |-> {}, seen |-> {}, reason |-> None,
             chunks_attempted |-> 0, embed_failures |-> 0]
NoReq == [client_id |-> None, url |-> None, max_depth |-> 0,
          follow_links |-> FALSE]

\* ingest_url: queue the background task, record the job as queued
IngestUrl(j, t, u, d, fl) ==
    /\ crawl_jobs[j] = "none"
    /\ \A i \in Jobs : i < j => crawl_jobs[i] # "none"
    /\ crawl_jobs' = [crawl_jobs EXCEPT ![j] = "queued"]
    /\ job_req' = [job_req EXCEPT ![j] =
            [client_id |-> t, url |-> u, max_depth |-> d, follow_links |-> fl]]
    /\ task' = [task EXCEPT ![j] = "pending"]
    /\ UNCHANGED <<auxVars, db_crawl_jobs, spider, storeVars, obsVars>>

\* variant: the task starts without recording running
TaskStart_Silent(j) ==
    /\ task[j] = "pending"
    /\ task' = [task EXCEPT ![j] = "started"]
    /\ UNCHANGED <<auxVars, crawl_jobs, job_req, db_crawl_jobs, spider, storeVars, obsVars>>

\* background_crawl_task, first statement: crawl_jobs[job_id] = running
TaskStart(j) ==
    /\ task[j] = "pending"
    /\ crawl_jobs' = [crawl_jobs EXCEPT ![j] = "running"]
    /\ task' = [task EXCEPT ![j] = "started"]
    /\ UNCHANGED <<auxVars, job_req, db_crawl_jobs, spider, storeVars, obsVars>>

\* Nexora001Spider.__init__ as started by runner.crawl
SpiderInit(req) ==
    [state |-> "open", pages_crawled |-> 0, documents_created |-> 0,
     frontier |-> {<<req.url, 0>>}, seen |-> {req.url}, reason |-> None,
     chunks_attempted |-> 0, embed_failures |-> 0]

\* crawl_url: create the durable job, then _run_spider starts the spider;
\* started = FALSE is runner.crawl failing (the spider's constructor raised),
\* which _run_spider re-raises into background_crawl_task's except branch
CrawlUrl(j, started) ==
    /\ task[j] = "started"
    /\ db_crawl_jobs' = [db_crawl_jobs EXCEPT ![j] =
            create_crawl_job(job_req[j].client_id, job_req[j].url)]
    /\ IF started
         THEN /\ spider' = [spider EXCEPT ![j] = SpiderInit(job_req[j])]
              /\ task' = [task EXCEPT ![j] = "waiting"]
              /\ UNCHANGED crawl_jobs
         ELSE /\ crawl_jobs' = [crawl_jobs EXCEPT ![j] = "failed"]
              /\ task' = [task EXCEPT ![j] = "done"]
              /\ UNCHANGED spider
    /\ UNCHANGED <<auxVars, job_req, documents, obsVars>>

\* variant: every link that is not an anchor counts as internal
_is_internal_link_AnyDomain(link, base_url) == link # "#top"

\* _is_internal_link(link, base_url)
_is_internal_link(link, base_url) ==
    link # "#top" /\ netloc(link) = netloc(base_url)

\* _is_internal_link + urljoin + the [:10] slice + scrapy's duplicate filter
FollowedLinks(u, seen) ==
    LET links == PageLinks[u]
        internal == SelectSeq(links, LAMBDA l : _is_internal_link(l, u))
        firstN == SubSeq(internal, 1,
                         IF Len(internal) < LINKS_PER_PAGE THEN Len(internal)
                                                           ELSE LINKS_PER_PAGE)
    IN { firstN[i] : i \in 1..Len(firstN) } \ seen

\* Nexora001Spider.parse, one response; the callback runs to completion on
\* the reactor thread, so two spiders never interleave inside it
Parse(j, r, len, outcome) ==
    LET sp == spider[j]
        req == job_req[j]
        u == r[1]
        depth == r[2]
        n == NumChunks(len)
        rest == sp.frontier \ {r}
    IN
    /\ sp.state = "open"
    /\ r \in sp.frontier
    /\ outcome \in [1..n -> ChunkOutcomes]
    /\ IF url_exists(documents, req.client_id, u)
         THEN \* already crawled: return
              /\ spider' = [spider EXCEPT ![j].frontier = rest]
              /\ UNCHANGED storeVars
         ELSE IF len < MIN_CONTENT
         THEN \* little/no content: return
              /\ spider' = [spider EXCEPT ![j].frontier = rest]
              /\ UNCHANGED storeVars
         ELSE LET new == StoredChunks(documents, req.client_id, u, "web",
                                          n, outcome)
                  follow == IF req.follow_links /\ depth < req.max_depth
                              THEN FollowedLinks(u, sp.seen) ELSE {}
              IN /\ documents' = documents \cup new
                 /\ spider' = [spider EXCEPT ![j] =
                        [state |-> "open",
                         pages_crawled |-> sp.pages_crawled + 1,
                         documents_created |->
                            sp.documents_created + Cardinality(new),
                         frontier |-> rest \cup { <<l, depth + 1>> : l \in follow },
                         seen |-> sp.seen \cup follow,
                         reason |-> None,
                         chunks_attempted |-> sp.chunks_attempted + n,
                         embed_failures |-> sp.embed_failures +
                            Cardinality({ i \in 1..n : outcome[i] = "noemb" })]]
    /\ UNCHANGED <<auxVars, crawl_jobs, job_req, task, db_crawl_jobs, obsVars>>

\* Nexora001Spider.closed(reason)
closed(job, sp, reason) ==
    LET status == IF reason = "finished" THEN "completed" ELSE "failed"
    IN update_crawl_job(job, status, sp.pages_crawled, sp.documents_created,
                        None)

\* the engine closes the spider: frontier exhausted, reason "finished"
SpiderFinished(j) ==
    /\ spider[j].state = "open"
    /\ spider[j].frontier = {}
    /\ db_crawl_jobs' = [db_crawl_jobs EXCEPT ![j] =
            closed(@, spider[j], "finished")]
    /\ spider' = [spider EXCEPT ![j].state = "closed",
                                 ![j].reason = "finished"]
    /\ UNCHANGED <<auxVars, crawl_jobs, job_req, task, storeVars, obsVars>>

\* variant: closed("shutdown") is delivered also to a spider that already closed
SpiderShutdown_Late(j) ==
    /\ spider[j].state \in {"open", "closed"}
    /\ task[j] = "done"
    /\ db_crawl_jobs' = [db_crawl_jobs EXCEPT ![j] =
            closed(@, spider[j], "shutdown")]
    /\ spider' = [spider EXCEPT ![j].state = "closed",
                                 ![j].reason = "shutdown"]
    /\ UNCHANGED <<auxVars, crawl_jobs, job_req, task, storeVars, obsVars>>

\* the wait timed out and cancelled the crawl's deferred: the engine may stop
\* the spider early, reason "shutdown"
SpiderShutdown(j) ==
    /\ spider[j].state = "open"
    /\ task[j] = "done"
    /\ db_crawl_jobs' = [db_crawl_jobs EXCEPT ![j] =
            closed(@, spider[j], "shutdown")]
    /\ spider' = [spider EXCEPT ![j].state = "closed",
                                 ![j].reason = "shutdown"]
    /\ UNCHANGED <<auxVars, crawl_jobs, job_req, task, storeVars, obsVars>>

\* _run_spider's wait_for(timeout=3600) expires: TimeoutError reaches
\* background_crawl_task's except branch
WaitTimeout(j) ==
    /\ task[j] = "waiting"
    /\ spider[j].state = "open"
    /\ crawl_jobs' = [crawl_jobs EXCEPT ![j] = "failed"]
    /\ task' = [task EXCEPT ![j] = "done"]
    /\ UNCHANGED <<auxVars, job_req, db_crawl_jobs, spider, storeVars, obsVars>>

\* the crawl's deferred fired: crawl_url returns, the task records completed
WaitReturn(j) ==
    /\ task[j] = "waiting"
    /\ spider[j].state = "closed"
    /\ crawl_jobs' = [crawl_jobs EXCEPT ![j] = "completed"]
    /\ task' = [task EXCEPT ![j] = "done"]
    /\ UNCHANGED <<auxVars, job_req, db_crawl_jobs, spider, storeVars, obsVars>>


(***************************************************************************)
(* File ingestion: POST /api/ingest/file, process_pdf, process_docx         *)
(***************************************************************************)
FileOutcomes == {"emb", "fail"}
FileUrl(name) == "file://" \o name
NoUpload == [client_id |-> None, kind |-> None, len |-> 0, status |-> 0,
             chunks_created |-> 0, source_url |-> None]

\* PDFProcessor/DOCXProcessor.process_and_store(path, client_id, source_url):
\* the result dictionary and the chunks inserted
process_and_store(kind, path, client_id, source_url, len, outcome, docs) ==
    IF len < MIN_CONTENT
      THEN [success |-> FALSE, chunks_created |-> 0, docs |-> {}]
      ELSE LET src == IF source_url = None THEN FileUrl(path) ELSE source_url
               new == StoredChunks(docs, client_id, src, kind,
                                   NumChunks(len), outcome)
           IN [success |-> TRUE, chunks_created |-> Cardinality(new),
               docs |-> new]

\* process_pdf(pdf_path, source_url=None, client_id=None)
process_pdf(path, kwargs, len, outcome, docs) ==
    IF ~(DOMAIN kwargs \subseteq {"source_url", "client_id"})
      THEN [success |-> FALSE, chunks_created |-> 0, docs |-> {},
            raised |-> "TypeError"]
      ELSE [raised |-> None] @@
           process_and_store("pdf", path,
               IF "client_id" \in DOMAIN kwargs THEN kwargs.client_id ELSE None,
               IF "source_url" \in DOMAIN kwargs THEN kwargs.source_url ELSE None,
               len, outcome, docs)

\* process_docx(docx_path, source_url=None): no client_id parameter, and the
\* body passes source_url in process_and_store's client_id position
process_docx(path, kwargs, len, outcome, docs) ==
    IF ~(DOMAIN kwargs \subseteq {"source_url"})
      THEN [success |-> FALSE, chunks_created |-> 0, docs |-> {},
            raised |-> "TypeError"]
      ELSE [raised |-> None] @@
           process_and_store("docx", path,
               IF "source_url" \in DOMAIN kwargs THEN kwargs.source_url ELSE None,
               None, len, outcome, docs)

\* ingest_file: the whole handler for an upload with an accepted extension
IngestFile(t, name, kind, len, outcome) ==
    LET kwargs == [source_url |-> FileUrl(name), client_id |-> t]
        result == IF kind = "pdf"
                    THEN process_pdf(name, kwargs, len, outcome, documents)
                    ELSE process_docx(name, kwargs, len, outcome, documents)
        code == IF result.raised # None THEN 500
                ELSE IF ~result.success THEN 400 ELSE 200
    IN
    /\ uploads < MaxUploads
    /\ outcome \in [1..NumChunks(len) -> FileOutcomes]
    /\ uploads' = uploads + 1
    /\ documents' = documents \cup result.docs
    /\ last_upload' = [client_id |-> t, kind |-> kind, len |-> len,
                       status |-> code,
                       chunks_created |-> result.chunks_created,
                       source_url |-> FileUrl(name)]
    /\ UNCHANGED <<auxVars, crawlVars, last_search, last_stats, chatVars>>

(***************************************************************************)
(* Document deletion routes                                                 *)
(***************************************************************************)
AllSources == WebUrls \cup { FileUrl(f) : f \in FileNames }

\* DELETE /documents/by-source
DeleteBySource(t, src) ==
    /\ url_exists(documents, t, src)
    /\ documents' = delete_by_url(documents, t, src)
    /\ UNCHANGED <<auxVars, crawlVars, obsVars>>

\* DELETE /documents?doc_id=
DeleteById(t, id) ==
    /\ \E d \in documents : d._id = id
    /\ documents' = delete_document_by_id(documents, t, id)
    /\ UNCHANGED <<auxVars, crawlVars, obsVars>>


(***************************************************************************)
(* Vector search: MongoDBStorage.vector_search, DocumentRetriever.retrieve  *)
(***************************************************************************)
\* <<query embedding, limit, min_score>> of the searches issued
SearchInputs ==
    { <<<<3, 4>>, TOP_K, MIN_SIMILARITY>>, <<<<5, 0>>, 1, 0>>,
      <<<<5, 0>>, 2, MIN_SIMILARITY>> }

\* integer square root, for x ** 0.5 on the magnitudes
ISqrt(x) == CHOOSE r \in 0..x : r * r <= x /\ (r + 1) * (r + 1) > x

Dot(a, b) == IF Len(a) = 2 THEN a[1] * b[1] + a[2] * b[2] ELSE 0

\* _cosine_similarity(vec1, vec2), as a percentage
_cosine_similarity(vec1, vec2) ==
    IF Len(vec1) # Len(vec2) THEN 0
    ELSE LET magnitude1 == ISqrt(Dot(vec1, vec1))
             magnitude2 == ISqrt(Dot(vec2, vec2))
         IN IF magnitude1 = 0 \/ magnitude2 = 0 THEN 0
            ELSE (100 * Dot(vec1, vec2)) \div (magnitude1 * magnitude2)

\* vectorSearchScore of a cosine index: (1 + cosine) / 2
AtlasScore(q, d) == (100 + _cosine_similarity(q, d.embedding)) \div 2

\* results.sort(key=similarity_score, reverse=True): a stable sort; hits of
\* equal score are copies of one chunk and keep their serial order
RECURSIVE SortHits(_)
SortHits(hits) ==
    IF hits = {} THEN <<>>
    ELSE LET best == CHOOSE h \in hits : \A g \in hits :
                        \/ h.similarity_score > g.similarity_score
                        \/ /\ h.similarity_score = g.similarity_score
                           /\ h._id[4] <= g._id[4]
         IN <<best>> \o SortHits(hits \ {best})

\* variant: the slice [:limit] is left out
Take_All(seq, n) == seq

Take(seq, n) == SubSeq(seq, 1, IF Len(seq) < n THEN Len(seq) ELSE n)

\* variant: the filter without its client_id condition
SearchFilter_NoTenant(docs, client_id) ==
    { d \in docs : d.embedding # <<>> }

\* the filter both paths hand to the database
SearchFilter(docs, client_id) ==
    { d \in docs : d.client_id = client_id /\ d.embedding # <<>> }

\* except-branch of vector_search: linear scan in Python
PythonSearch(docs, client_id, q, limit, min_score) ==
    LET candidates == SearchFilter(docs, client_id)
        results == { [_id |-> d._id, source_url |-> d.source_url,
                      similarity_score |-> _cosine_similarity(q, d.embedding)] :
                        d \in { c \in candidates :
                                _cosine_similarity(q, c.embedding) >= min_score } }
    IN Take(SortHits(results), limit)

\* try-branch of vector_search: the $vectorSearch aggregation; nearest is the
\* set of at most limit filtered points the approximate index returned
AtlasSearch(nearest, q, min_score) ==
    SortHits({ [_id |-> d._id, source_url |-> d.source_url,
                similarity_score |-> AtlasScore(q, d)] :
                 d \in { c \in nearest : AtlasScore(q, c) >= min_score } })

Min(a, b) == IF a < b THEN a ELSE b

\* DocumentRetriever.retrieve_with_context: the sources list built from the
\* results in the order vector_search returned them
retrieve_with_context(results) ==
    [i \in 1..Len(results) |->
        [number |-> i, id |-> results[i]._id,
         score |-> results[i].similarity_score]]

\* what the approximate index may return for a request of limit points
Nearest(docs, t, limit) ==
    LET candidates == SearchFilter(docs, t)
    IN { n \in SUBSET candidates :
            Cardinality(n) = Min(limit, Cardinality(candidates)) }

\* a search call as observed: its arguments, whether the attempt on the
\* accelerated index raised, the path that answered, the results
SearchRecord(t, q, limit, min_score, index_error, path, hits) ==
    [client_id |-> t, q |-> q, limit |-> limit, min_score |-> min_score,
     index_error |-> index_error, path |-> path, hits |-> hits,
     sources |-> retrieve_with_context(hits)]

NoSearch == SearchRecord(None, <<>>, 0, 0, FALSE, None, <<>>)

\* MongoDBStorage.vector_search(client_id, query_embedding, limit, min_score);
\* index_ok = FALSE is the aggregation raising (index missing)
VectorSearch(t, q, limit, min_score, index_ok, nearest) ==
    LET candidates == SearchFilter(documents, t)
    IN
    /\ index_ok => /\ nearest \subseteq candidates
                    /\ Cardinality(nearest) = Min(limit, Cardinality(candidates))
    /\ last_search' =
         IF index_ok
           THEN SearchRecord(t, q, limit, min_score, FALSE, "atlas",
                             AtlasSearch(nearest, q, min_score))
           ELSE SearchRecord(t, q, limit, min_score, TRUE, "python",
                             PythonSearch(documents, t, q, limit, min_score))
    /\ UNCHANGED <<auxVars, storeVars, crawlVars, uploads, last_upload, last_stats, chatVars>>

(***************************************************************************)
(* Qdrant backend: storage/vector_search.py, QdrantStorage,                 *)
(* migrate_to_selfhosted.py                                                 *)
(***************************************************************************)
\* QdrantStorage.store_embedding: the point upserted for a document
Point(d, emb) ==
    [_id |-> d._id, client_id |-> d.client_id, source_url |-> d.source_url,
     embedding |-> emb]

\* migrate_to_self_hosted, step 3: every document gets a point, with its
\* stored embedding or a freshly generated one; upsert replaces by id
Migrate ==
    LET new == { Point(d, IF d.embedding # <<>> THEN d.embedding
                          ELSE generate_embedding(d.source_url, d.chunk_index)) :
                    d \in documents }
        ids == { p._id : p \in new }
    IN
    /\ documents # {}
    /\ qdrant_points' = { p \in qdrant_points : p._id \notin ids } \cup new
    /\ UNCHANGED <<USE_QDRANT, chunkVars, embedVars, keyVars, storeVars, crawlVars, obsVars>>

\* QdrantStorage.vector_search: cosine search filtered by client_id with
\* score_threshold; any exception is caught and [] returned
QdrantSearch(points, client_id, q, limit, min_score, qdrant_ok) ==
    IF ~qdrant_ok THEN <<>>
    ELSE Take(SortHits({ [_id |-> p._id, source_url |-> p.source_url,
                          similarity_score |-> _cosine_similarity(q, p.embedding)] :
                            p \in { c \in points :
                                      /\ c.client_id = client_id
                                      /\ _cosine_similarity(q, c.embedding) >= min_score } }),
              limit)

\* vector_search(client_id, query_embedding, limit, min_score, mongo_storage)
\* of storage/vector_search.py: Qdrant when USE_QDRANT, else MongoDB
HybridVectorSearch(t, q, limit, min_score, index_ok, nearest) ==
    /\ (index_ok /\ ~USE_QDRANT) => nearest \in Nearest(documents, t, limit)
    /\ last_search' =
         IF USE_QDRANT
           THEN SearchRecord(t, q, limit, min_score, ~index_ok, "qdrant",
                    QdrantSearch(qdrant_points, t, q, limit, min_score, index_ok))
           ELSE IF index_ok
           THEN SearchRecord(t, q, limit, min_score, FALSE, "atlas",
                             AtlasSearch(nearest, q, min_score))
           ELSE SearchRecord(t, q, limit, min_score, TRUE, "python",
                             PythonSearch(documents, t, q, limit, min_score))
    /\ UNCHANGED <<auxVars, storeVars, crawlVars, uploads, last_upload, last_stats, chatVars>>

(***************************************************************************)
(* TextChunker                                                              *)
(***************************************************************************)
\* a text is a sequence of characters; "done" once chunk_text has returned
NoChunked == [text |-> <<>>, chunk_size |-> 0, chunk_overlap |-> 0,
              chunks |-> <<>>, done |-> FALSE]

\* the characters of the texts handed to the chunker: a letter, a blank, a
\* sentence end and a line break
Chars == {"a", " ", "!", "\n"}
Texts == UNION { [1..n -> Chars] : n \in 0..MaxTextLen }
\* TextChunker(chunk_size, chunk_overlap): the configurations explored
ChunkConfigs == {<<4, 2>>, <<5, 1>>, <<4, 0>>}

\* the characters \s matches, and those the sentence split looks behind for
Whitespace == {" ", "\n"}
SentenceEnd == {".", "!", "?"}

RECURSIVE lstrip(_)
lstrip(s) ==
    IF s # <<>> /\ Head(s) \in Whitespace THEN lstrip(Tail(s)) ELSE s

RECURSIVE rstrip(_)
rstrip(s) ==
    IF s # <<>> /\ s[Len(s)] \in Whitespace
      THEN rstrip(SubSeq(s, 1, Len(s) - 1)) ELSE s

\* str.strip()
strip(s) == rstrip(lstrip(s))

\* re.sub(r'\s+', ' ', text)
RECURSIVE CollapseWhitespace(_)
CollapseWhitespace(s) ==
    IF s = <<>> THEN <<>>
    ELSE IF Head(s) \in Whitespace
      THEN <<" ">> \o CollapseWhitespace(lstrip(s))
      ELSE <<Head(s)>> \o CollapseWhitespace(Tail(s))

\* _clean_text: after the first substitution no newline is left, so the
\* second substitution (three or more newlines) matches nothing
_clean_text(text) == strip(CollapseWhitespace(text))

\* str.find(pat): lowest 0-based index of pat in s, or -1
find(s, pat) ==
    LET at == { i \in 1..(Len(s) - Len(pat) + 1) :
                    SubSeq(s, i, i + Len(pat) - 1) = pat }
    IN IF at = {} THEN -1
       ELSE (CHOOSE i \in at : \A k \in at : i <= k) - 1

\* str.split(): the maximal runs of non-whitespace characters
RECURSIVE split(_)
split(s) ==
    LET t == lstrip(s)
        stops == { i \in 1..Len(t) : t[i] \in Whitespace }
        n == IF stops = {} THEN Len(t) + 1
             ELSE CHOOSE i \in stops : \A k \in stops : i <= k
    IN IF t = <<>> THEN <<>>
       ELSE <<SubSeq(t, 1, n - 1)>> \o split(SubSeq(t, n, Len(t)))

\* " ".join(words)
RECURSIVE join(_)
join(words) ==
    IF words = <<>> THEN <<>>
    ELSE IF Len(words) = 1 THEN words[1]
    ELSE words[1] \o <<" ">> \o join(Tail(words))

\* re.split(r'(?<=[.!?])\s+', text)
RECURSIVE SplitSentences(_)
SplitSentences(s) ==
    LET cuts == { i \in 2..Len(s) :
                    s[i] \in Whitespace /\ s[i - 1] \in SentenceEnd }
        n == CHOOSE i \in cuts : \A k \in cuts : i <= k
    IN IF cuts = {} THEN <<s>>
       ELSE <<SubSeq(s, 1, n - 1)>>
                \o SplitSentences(lstrip(SubSeq(s, n, Len(s))))

\* text.split(separator) for the separator "\n\n"
RECURSIVE SplitParagraphs(_)
SplitParagraphs(s) ==
    LET n == find(s, <<"\n", "\n">>)
    IN IF n = -1 THEN <<s>>
       ELSE <<SubSeq(s, 1, n)>> \o SplitParagraphs(SubSeq(s, n + 3, Len(s)))

\* text[-n:]; for n = 0 the slice is the whole text
LastChars(text, n) ==
    IF n = 0 \/ n >= Len(text) THEN text
    ELSE SubSeq(text, Len(text) - n + 1, Len(text))

Max3(a, b, c) ==
    IF a >= b /\ a >= c THEN a ELSE IF b >= c THEN b ELSE c

\* _get_overlap(text)
_get_overlap(text, chunk_overlap) ==
    IF Len(text) <= chunk_overlap THEN text \o <<" ">>
    ELSE LET overlap_text == LastChars(text, chunk_overlap)
             sentence_start == Max3(find(overlap_text, <<".", " ", " ">>),
                                    find(overlap_text, <<"!", " ">>),
                                    find(overlap_text, <<"?", " ">>))
             cut == IF sentence_start > 0
                      THEN SubSeq(overlap_text, sentence_start + 3,
                                  Len(overlap_text))
                      ELSE overlap_text
         IN IF strip(cut) # <<>> THEN strip(cut) \o <<" ">> ELSE <<>>

\* A chunk is its text together with "carried": the overlap text, taken from
\* the chunk before it, that the chunk was started with (empty when none).
Chunk(text, carried) == [text |-> text, carried |-> carried]

\* the loop state of the three splitting loops
Loop(chunks, current, carried) ==
    [chunks |-> chunks, current |-> current, carried |-> carried]

\* variant: the text left in current_chunk when the loop ends is dropped
Flush_NoTail(st) == st.chunks

\* the trailing "if current_chunk: chunks.append(current_chunk.strip())"
Flush(st) ==
    IF st.current # <<>>
      THEN Append(st.chunks, Chunk(strip(st.current), st.carried))
      ELSE st.chunks

\* seq[:-1]
AllButLast(seq) == IF seq = <<>> THEN <<>> ELSE SubSeq(seq, 1, Len(seq) - 1)

\* current_chunk.split()[-self.chunk_overlap // 10:], the floor division
\* taken of the negated overlap: the last ceil(overlap / 10) words, and
\* every word when that is 0
OverlapWords(current, chunk_overlap) ==
    LET words == split(current)
        n == (chunk_overlap + 9) \div 10
    IN IF n = 0 \/ n >= Len(words) THEN words
       ELSE SubSeq(words, Len(words) - n + 1, Len(words))

\* one iteration of the loop of _split_by_words
WordStep(st, word, chunk_size, chunk_overlap) ==
    IF Len(st.current) + Len(word) + 1 > chunk_size
      THEN IF st.current # <<>>
             THEN LET over == join(OverlapWords(st.current, chunk_overlap))
                  IN Loop(Append(st.chunks,
                                 Chunk(strip(st.current), st.carried)),
                          over \o <<" ">> \o word, over)
             ELSE Loop(Append(st.chunks, Chunk(word, <<>>)), <<>>, <<>>)
      ELSE Loop(st.chunks,
                IF st.current # <<>> THEN st.current \o <<" ">> \o word
                                     ELSE word,
                st.carried)

RECURSIVE WordLoop(_, _, _, _, _)
WordLoop(words, i, st, chunk_size, chunk_overlap) ==
    IF i > Len(words) THEN st
    ELSE WordLoop(words, i + 1,
                  WordStep(st, words[i], chunk_size, chunk_overlap),
                  chunk_size, chunk_overlap)

_split_by_words(text, chunk_size, chunk_overlap) ==
    Flush(WordLoop(split(text), 1, Loop(<<>>, <<>>, <<>>),
                   chunk_size, chunk_overlap))

\* one iteration of the loop of _split_by_sentences
SentenceStep(st, sentence, chunk_size, chunk_overlap) ==
    IF Len(st.current) + Len(sentence) + 1 > chunk_size
      THEN IF st.current # <<>>
             THEN LET overlap_text == _get_overlap(st.current, chunk_overlap)
                  IN Loop(Append(st.chunks,
                                 Chunk(strip(st.current), st.carried)),
                          overlap_text \o sentence, strip(overlap_text))
           ELSE IF Len(sentence) > chunk_size
             THEN LET word_chunks ==
                          _split_by_words(sentence, chunk_size, chunk_overlap)
                      last == word_chunks[Len(word_chunks)]
                  IN IF word_chunks = <<>>
                       THEN Loop(st.chunks, <<>>, <<>>)
                       ELSE Loop(st.chunks \o AllButLast(word_chunks),
                                 last.text, last.carried)
             ELSE Loop(st.chunks, sentence, <<>>)
      ELSE Loop(st.chunks,
                IF st.current # <<>> THEN st.current \o <<" ">> \o sentence
                                     ELSE sentence,
                st.carried)

RECURSIVE SentenceLoop(_, _, _, _, _)
SentenceLoop(sentences, i, st, chunk_size, chunk_overlap) ==
    IF i > Len(sentences) THEN st
    ELSE SentenceLoop(sentences, i + 1,
                      SentenceStep(st, sentences[i], chunk_size,
                                   chunk_overlap),
                      chunk_size, chunk_overlap)

_split_by_sentences(text, chunk_size, chunk_overlap) ==
    Flush(SentenceLoop(SplitSentences(text), 1, Loop(<<>>, <<>>, <<>>),
                       chunk_size, chunk_overlap))

\* one iteration of the loop of _split_text, for a stripped paragraph
ParagraphStep(st, para, chunk_size, chunk_overlap) ==
    IF para = <<>> THEN st
    ELSE IF Len(st.current) + Len(para) + 2 > chunk_size
      THEN IF st.current # <<>>
             THEN LET overlap_text == _get_overlap(st.current, chunk_overlap)
                  IN Loop(Append(st.chunks,
                                 Chunk(strip(st.current), st.carried)),
                          overlap_text \o para, strip(overlap_text))
           ELSE IF Len(para) > chunk_size
             THEN LET sentence_chunks ==
                          _split_by_sentences(para, chunk_size, chunk_overlap)
                      last == sentence_chunks[Len(sentence_chunks)]
                  IN IF sentence_chunks = <<>>
                       THEN Loop(st.chunks, <<>>, <<>>)
                       ELSE Loop(st.chunks \o AllButLast(sentence_chunks),
                                 last.text, last.carried)
             ELSE Loop(st.chunks, para, <<>>)
      ELSE Loop(st.chunks,
                IF st.current # <<>>
                  THEN st.current \o <<"\n", "\n">> \o para
                  ELSE para,
                st.carried)

RECURSIVE ParagraphLoop(_, _, _, _, _)
ParagraphLoop(paragraphs, i, st, chunk_size, chunk_overlap) ==
    IF i > Len(paragraphs) THEN st
    ELSE ParagraphLoop(paragraphs, i + 1,
                       ParagraphStep(st, strip(paragraphs[i]), chunk_size,
                                     chunk_overlap),
                       chunk_size, chunk_overlap)

_split_text(text, chunk_size, chunk_overlap) ==
    IF Len(text) <= chunk_size THEN <<Chunk(text, <<>>)>>
    ELSE Flush(ParagraphLoop(SplitParagraphs(text), 1,
                             Loop(<<>>, <<>>, <<>>),
                             chunk_size, chunk_overlap))

\* "for i, chunk_text in enumerate(chunks)": the chunk objects, char_count
\* and the caller's metadata left out
RECURSIVE ChunkObjects(_, _, _)
ChunkObjects(chunks, i, total_chunks) ==
    IF chunks = <<>> THEN <<>>
    ELSE <<[text |-> Head(chunks).text, carried |-> Head(chunks).carried,
            chunk_index |-> i, total_chunks |-> total_chunks]>>
         \o ChunkObjects(Tail(chunks), i + 1, total_chunks)

\* chunk_text(text)
chunk_text(text, chunk_size, chunk_overlap) ==
    IF text = <<>> \/ strip(text) = <<>> THEN <<>>
    ELSE LET chunks == _split_text(_clean_text(text), chunk_size,
                                   chunk_overlap)
         IN ChunkObjects(chunks, 0, Len(chunks))

\* TextChunker(chunk_size, chunk_overlap).chunk_text(text), for the text and
\* the configuration the state holds
ChunkText ==
    /\ ~chunked.done
    /\ chunked' = [chunked EXCEPT
                     !.chunks = chunk_text(chunked.text, chunked.chunk_size,
                                           chunked.chunk_overlap),
                     !.done = TRUE]
    /\ UNCHANGED <<qdrantVars, embedVars, keyVars, storeVars, crawlVars, chatVars,
                   obsVars>>

\* TextChunker(chunk_size, chunk_overlap)._split_by_words(text), for the
\* text and the configuration the state holds
SplitByWords ==
    /\ ~chunked.done
    /\ chunked' = [chunked EXCEPT
                     !.chunks = _split_by_words(chunked.text,
                                                chunked.chunk_size,
                                                chunked.chunk_overlap),
                     !.done = TRUE]
    /\ UNCHANGED <<qdrantVars, embedVars, keyVars, storeVars, crawlVars, chatVars,
                   obsVars>>

(***************************************************************************)
(* EmbeddingGenerator: generate_embedding and its cache                     *)
(***************************************************************************)
\* the texts embedded, and the vector the provider computes for each
EmbedTexts == {"x", "y", "z"}
_embed(text) ==
    IF text = "x" THEN <<3, 4>> ELSE IF text = "y" THEN <<4, 3>> ELSE <<5, 0>>

\* hashlib.md5(text.encode('utf-8')).hexdigest(): one key per text
cache_key(text) == <<"md5", text>>

\* The cache dict: "entries" maps the keys of the texts of EmbedTexts to
\* vectors; "others" counts the entries held for texts embedded earlier.
EmptyCache == [others |-> 0, entries |-> <<>>]
\* len(self.cache)
CacheLen(c) == c.others + Cardinality(DOMAIN c.entries)
\* self.cache[cache_key] = embedding
CachePut(c, k, vector) ==
    [c EXCEPT !.entries = [j \in (DOMAIN c.entries) \cup {k} |->
                              IF j = k THEN vector ELSE c.entries[j]]]

\* a completed call: its text, what it returned, whether the provider ran,
\* and the counters before and after
NoCall == [text |-> None, vector |-> <<>>, provider |-> FALSE,
           hits |-> <<0, 0>>, misses |-> <<0, 0>>]
EmptyLog == [begun |-> 0, completed |-> 0, prev |-> NoCall, last |-> NoCall]
Completed(log, call) ==
    [log EXCEPT !.completed = @ + 1, !.prev = log.last, !.last = call]

\* "if len(self.cache) < 1000"
CanStore(c) == CacheLen(c) < CACHE_CAP

\* generate_embedding(text) called by a single thread, start to return
GenerateEmbedding(text) ==
    /\ embed_log.begun < MaxCalls
    /\ \A t \in DOMAIN embed_threads : embed_threads[t].pc = "idle"
    /\ IF cache_key(text) \in DOMAIN cache.entries
         THEN /\ cache_hits' = cache_hits + 1
              /\ embed_log' = Completed([embed_log EXCEPT !.begun = @ + 1],
                     [text |-> text, vector |-> cache.entries[cache_key(text)],
                      provider |-> FALSE,
                      hits |-> <<cache_hits, cache_hits + 1>>,
                      misses |-> <<cache_misses, cache_misses>>])
              /\ UNCHANGED <<cache, cache_misses>>
         ELSE /\ cache_misses' = cache_misses + 1
              /\ cache' = IF CanStore(cache)
                            THEN CachePut(cache, cache_key(text), _embed(text))
                            ELSE cache
              /\ embed_log' = Completed([embed_log EXCEPT !.begun = @ + 1],
                     [text |-> text, vector |-> _embed(text),
                      provider |-> TRUE,
                      hits |-> <<cache_hits, cache_hits>>,
                      misses |-> <<cache_misses, cache_misses + 1>>])
              /\ UNCHANGED cache_hits
    /\ UNCHANGED <<embed_threads, qdrantVars, chunkVars, keyVars, storeVars, crawlVars,
                   obsVars>>

\* Threads calling generate_embedding on one generator.  No lock is taken, so
\* a thread may be preempted between any two of the steps below; "tmp" is the
\* counter value an increment has loaded and not yet stored back.
EmbedThreads == {1, 2}
IdleThread == [pc |-> "idle", text |-> None, tmp |-> 0, embedding |-> <<>>,
               hits |-> 0, misses |-> 0]

\* the call is made
EmbedBegin(t, text) ==
    /\ embed_threads[t].pc = "idle"
    /\ embed_log.begun < MaxCalls
    /\ embed_threads' = [embed_threads EXCEPT ![t] =
                             [IdleThread EXCEPT !.pc = "lookup", !.text = text,
                                                !.hits = cache_hits,
                                                !.misses = cache_misses]]
    /\ embed_log' = [embed_log EXCEPT !.begun = @ + 1]
    /\ UNCHANGED <<cache, cache_hits, cache_misses>>

\* "if cache_key in self.cache", and the load of the counter to increment
EmbedLookup(t) ==
    LET th == embed_threads[t]
    IN /\ th.pc = "lookup"
       /\ embed_threads' = [embed_threads EXCEPT ![t] =
             IF cache_key(th.text) \in DOMAIN cache.entries
               THEN [th EXCEPT !.pc = "hit", !.tmp = cache_hits]
               ELSE [th EXCEPT !.pc = "miss", !.tmp = cache_misses]]
       /\ UNCHANGED <<cache, cache_hits, cache_misses, embed_log>>

\* the store of "self.cache_hits += 1", then "return self.cache[cache_key]"
EmbedHit(t) ==
    LET th == embed_threads[t]
    IN /\ th.pc = "hit"
       /\ cache_hits' = th.tmp + 1
       /\ embed_log' = Completed(embed_log,
              [text |-> th.text, vector |-> cache.entries[cache_key(th.text)],
               provider |-> FALSE, hits |-> <<th.hits, th.tmp + 1>>,
               misses |-> <<th.misses, cache_misses>>])
       /\ embed_threads' = [embed_threads EXCEPT ![t] = IdleThread]
       /\ UNCHANGED <<cache, cache_misses>>

\* the store of "self.cache_misses += 1"
EmbedMiss(t) ==
    /\ embed_threads[t].pc = "miss"
    /\ cache_misses' = embed_threads[t].tmp + 1
    /\ embed_threads' = [embed_threads EXCEPT ![t].pc = "provider"]
    /\ UNCHANGED <<cache, cache_hits, embed_log>>

\* the provider call, then the test "len(self.cache) < 1000"
EmbedProvider(t) ==
    LET th == embed_threads[t]
    IN /\ th.pc = "provider"
       /\ embed_threads' = [embed_threads EXCEPT ![t] =
             [th EXCEPT !.embedding = _embed(th.text),
                        !.pc = IF CanStore(cache) THEN "store" ELSE "return"]]
       /\ UNCHANGED <<cache, cache_hits, cache_misses, embed_log>>

\* "self.cache[cache_key] = embedding"
EmbedStore(t) ==
    LET th == embed_threads[t]
    IN /\ th.pc = "store"
       /\ cache' = CachePut(cache, cache_key(th.text), th.embedding)
       /\ embed_threads' = [embed_threads EXCEPT ![t].pc = "return"]
       /\ UNCHANGED <<cache_hits, cache_misses, embed_log>>

\* "return embedding"
EmbedReturn(t) ==
    LET th == embed_threads[t]
    IN /\ th.pc = "return"
       /\ embed_log' = Completed(embed_log,
              [text |-> th.text, vector |-> th.embedding, provider |-> TRUE,
               hits |-> <<th.hits, cache_hits>>,
               misses |-> <<th.misses, cache_misses>>])
       /\ embed_threads' = [embed_threads EXCEPT ![t] = IdleThread]
       /\ UNCHANGED <<cache, cache_hits, cache_misses>>

EmbedStep(t) ==
    /\ \/ \E text \in EmbedTexts : EmbedBegin(t, text)
       \/ EmbedLookup(t)
       \/ EmbedHit(t)
       \/ EmbedMiss(t)
       \/ EmbedProvider(t)
       \/ EmbedStore(t)
       \/ EmbedReturn(t)
    /\ UNCHANGED <<qdrantVars, chunkVars, keyVars, storeVars, crawlVars, obsVars>>

(***************************************************************************)
(* API keys: MongoDBStorage api_keys functions, get_user_from_api_key       *)
(***************************************************************************)
KeyIds == 1..MaxKeys
\* "nx_" + secrets.token_urlsafe(24): a fresh value each time one is drawn,
\* here the document it was drawn for and how many were drawn for it before
KeyValue(k, gen) == <<"nx", k, gen>>
KeyValues == { KeyValue(k, gen) : k \in KeyIds, gen \in 0..MaxRegens }
NoKey == [key |-> <<>>, gen |-> 0, client_id |-> None, status |-> None]
NoValidate == [key |-> <<>>, client_id |-> None]

\* create_api_key(client_id, name)
CreateApiKey(t) ==
    /\ \E k \in KeyIds :
          /\ api_keys[k] = NoKey
          /\ \A i \in KeyIds : i < k => api_keys[i] # NoKey
          /\ api_keys' = [api_keys EXCEPT ![k] =
                [key |-> KeyValue(k, 0), gen |-> 0, client_id |-> t,
                 status |-> "active"]]
    /\ UNCHANGED <<users, last_validate>>

\* revoke_api_key(key_id, admin_id): the super admin route
RevokeApiKey(k) ==
    /\ api_keys[k] # NoKey
    /\ api_keys' = [api_keys EXCEPT ![k].status = "revoked"]
    /\ UNCHANGED <<users, last_validate>>

\* regenerate_api_key(key_id, client_id)
RegenerateApiKey(k, t) ==
    /\ api_keys[k] # NoKey
    /\ api_keys[k].client_id = t
    /\ api_keys[k].gen < MaxRegens
    /\ api_keys' = [api_keys EXCEPT ![k] =
            [key |-> KeyValue(k, @.gen + 1), gen |-> @.gen + 1,
             client_id |-> t, status |-> "active"]]
    /\ UNCHANGED <<users, last_validate>>

\* ban_user / unban_user
SetUserStatus(t, status) ==
    /\ users[t] # status
    /\ users' = [users EXCEPT ![t] = status]
    /\ UNCHANGED <<api_keys, last_validate>>

\* variant: the first definition of validate_api_key in the class body
\* (mongodb.py:271-291), which the second definition replaces
validate_api_key_First(keys, accounts, key) ==
    LET found == { k \in KeyIds : keys[k].key = key }
    IN IF found = {} THEN None
       ELSE LET doc == keys[CHOOSE k \in found : TRUE]
            IN IF doc.status # "active" THEN None
               ELSE IF accounts[doc.client_id] = "banned" THEN None
               ELSE doc.client_id

\* validate_api_key(key): the definition the class ends up with
validate_api_key(keys, accounts, key) ==
    LET found == { k \in KeyIds : keys[k].key = key }
    IN IF found = {} THEN None
       ELSE LET doc == keys[CHOOSE k \in found : TRUE]
            IN IF accounts[doc.client_id] = "banned" THEN None
               ELSE doc.client_id

\* get_user_from_api_key(x_api_key): a widget request presents a key
ValidateApiKey(key) ==
    /\ last_validate' = [key |-> key,
                         client_id |-> validate_api_key(api_keys, users, key)]
    /\ UNCHANGED <<api_keys, users>>

KeySteps ==
    /\ \/ \E t \in Tenants : CreateApiKey(t)
       \/ \E k \in KeyIds : RevokeApiKey(k)
       \/ \E k \in KeyIds, t \in Tenants : RegenerateApiKey(k, t)
       \/ \E t \in Tenants, status \in {"active", "banned"} :
             SetUserStatus(t, status)
       \/ \E key \in KeyValues : ValidateApiKey(key)
    /\ UNCHANGED <<qdrantVars, chunkVars, embedVars, storeVars, crawlVars,
                   obsVars>>

(***************************************************************************)
(* Statistics: MongoDBStorage.get_stats and the routes that call it         *)
(***************************************************************************)
NoStats == [called |-> FALSE, client_id |-> None, total_documents |-> 0,
            unique_sources |-> 0, sources |-> {}]

\* get_stats(client_id=None): an empty filter when no client_id is given
get_stats(docs, client_id) ==
    LET matched == IF client_id # None
                     THEN { d \in docs : d.client_id = client_id }
                     ELSE docs
        urls == { d.source_url : d \in matched }
    IN [called |-> TRUE, client_id |-> client_id,
        total_documents |-> Cardinality(matched),
        unique_sources |-> Cardinality(urls),
        sources |-> { [url |-> u,
                       count |-> Cardinality({ d \in matched : d.source_url = u })] :
                        u \in urls }]

\* a caller of the store's stats operation for tenant t
GetStats(t) ==
    /\ last_stats' = get_stats(documents, t)
    /\ UNCHANGED <<auxVars, storeVars, crawlVars, uploads, last_upload, last_search, chatVars>>

\* GET /api/status and GET /api/documents/stats: storage.get_stats()
GetStatus ==
    /\ last_stats' = get_stats(documents, None)
    /\ UNCHANGED <<auxVars, storeVars, crawlVars, uploads, last_upload, last_search, chatVars>>


(***************************************************************************)
(* Chat: the process-wide RAGPipeline (get_rag_pipeline), RAGPipeline.ask,  *)
(* AnswerGenerator._build_prompt, the background save to chat_sessions      *)
(***************************************************************************)
MAX_WORKERS == 2
Workers == 1..MAX_WORKERS
\* who chats: (tenant, session_id sent by the client); "" is an omitted id
ChatClients == {<<"A", "s1">>, <<"B", "s1">>, <<"A", "">>}
\* <<use_history, llm_ok, index_ok>> of the requests issued
AskOptions == {<<TRUE, TRUE, TRUE>>, <<TRUE, FALSE, FALSE>>, <<FALSE, TRUE, FALSE>>}
SessionIds == {"s1", "dash-A", "dash-B", "anonymous-visitor"}

\* a message text is identified by the chat that produced it
Text(kind, t, sid) == [kind |-> kind, tenant |-> t, session |-> sid]
Msg(role, content) == [role |-> role, content |-> content]

\* chat_dashboard: request.session_id or f"dash-{user id}"
DashSession(t, sid) == IF sid # "" THEN sid ELSE "dash-" \o t

\* generate_answer: the model's text, or the error text when the call raised
generate_answer(llm_ok, t, sid) ==
    IF llm_ok THEN Text("answer", t, sid)
              ELSE Text("Error generating answer", t, sid)

\* _build_prompt: the "Previous conversation" block, last 3 messages
PromptHistory(conversation) ==
    IF conversation = <<>> THEN <<>>
    ELSE SubSeq(conversation,
                IF Len(conversation) > HISTORY_WINDOW
                  THEN Len(conversation) - HISTORY_WINDOW + 1 ELSE 1,
                Len(conversation))

NoPrompt == [client_id |-> None, session_id |-> None, history |-> <<>>,
             context |-> <<>>]
IdleWorker == [state |-> "idle", session_id |-> None,
               user_msg |-> Text(None, None, None),
               assistant_msg |-> Text(None, None, None)]

\* RAGPipeline.ask (stream=False) as called by chat_dashboard
Ask(t, sid, use_history, llm_ok, index_ok) ==
    LET session_id == DashSession(t, sid)
        query == Text("question", t, session_id)
        q == <<3, 4>>
        hits == IF index_ok
                  THEN AtlasSearch(SearchFilter(documents, t), q, MIN_SIMILARITY)
                  ELSE PythonSearch(documents, t, q, TOP_K, MIN_SIMILARITY)
        conversation == IF use_history THEN conversation_history ELSE <<>>
        answer == generate_answer(llm_ok, t, session_id)
    IN
    /\ asks < MaxAsks
    /\ asks' = asks + 1
    /\ last_prompt' = [client_id |-> t, session_id |-> session_id,
                       history |-> PromptHistory(conversation),
                       context |-> hits]
    /\ conversation_history' =
            conversation_history \o <<Msg("user", query), Msg("assistant", answer)>>
    /\ executor_queue' = Append(executor_queue,
            [session_id |-> session_id, user_msg |-> query,
             assistant_msg |-> answer])
    /\ UNCHANGED <<auxVars, storeVars, crawlVars, uploads, last_upload, last_search,
                   last_stats, workers, chat_sessions>>

\* POST /api/chat/clear-history: rag.clear_history()
ClearHistory ==
    /\ conversation_history # <<>>
    /\ conversation_history' = <<>>
    /\ UNCHANGED <<auxVars, storeVars, crawlVars, uploads, last_upload, last_search,
                   last_stats, asks, last_prompt, executor_queue, workers,
                   chat_sessions>>

\* add_chat_message(session_id, role, content): upsert + $push
add_chat_message(sessions, session_id, role, content) ==
    [sessions EXCEPT ![session_id] = Append(@, Msg(role, content))]

\* a free worker thread takes the oldest submitted _save_chat_to_db task
WorkerTake(w) ==
    /\ workers[w].state = "idle"
    /\ executor_queue # <<>>
    /\ workers' = [workers EXCEPT ![w] =
            [state |-> "user"] @@ Head(executor_queue)]
    /\ executor_queue' = Tail(executor_queue)
    /\ UNCHANGED <<auxVars, storeVars, crawlVars, uploads, last_upload, last_search,
                   last_stats, conversation_history, asks, last_prompt,
                   chat_sessions>>

\* _save_chat_to_db, first add_chat_message
WorkerSaveUser(w) ==
    /\ workers[w].state = "user"
    /\ chat_sessions' = add_chat_message(chat_sessions, workers[w].session_id,
                                         "user", workers[w].user_msg)
    /\ workers' = [workers EXCEPT ![w].state = "assistant"]
    /\ UNCHANGED <<auxVars, storeVars, crawlVars, uploads, last_upload, last_search,
                   last_stats, conversation_history, asks, last_prompt,
                   executor_queue>>

\* _save_chat_to_db, second add_chat_message
WorkerSaveAssistant(w) ==
    /\ workers[w].state = "assistant"
    /\ chat_sessions' = add_chat_message(chat_sessions, workers[w].session_id,
                                         "assistant", workers[w].assistant_msg)
    /\ workers' = [workers EXCEPT ![w] = IdleWorker]
    /\ UNCHANGED <<auxVars, storeVars, crawlVars, uploads, last_upload, last_search,
                   last_stats, conversation_history, asks, last_prompt,
                   executor_queue>>

(***************************************************************************)
(* Specifications                                                           *)
(***************************************************************************)
vars == <<documents, crawl_jobs, job_req, task, db_crawl_jobs, spider,
          uploads, last_upload, last_search, last_stats,
          conversation_history, asks, last_prompt, executor_queue, workers,
          chat_sessions, USE_QDRANT, qdrant_points, chunked, cache,
          cache_hits, cache_misses, embed_threads, embed_log, api_keys,
          users, last_validate>>

InitChatVars ==
    /\ conversation_history = <<>>
    /\ asks = 0
    /\ last_prompt = NoPrompt
    /\ executor_queue = <<>>
    /\ workers = [w \in Workers |-> IdleWorker]
    /\ chat_sessions = [s \in SessionIds |-> <<>>]

InitCrawlVars ==
    /\ crawl_jobs = [j \in Jobs |-> "none"]
    /\ job_req = [j \in Jobs |-> NoReq]
    /\ task = [j \in Jobs |-> "idle"]
    /\ db_crawl_jobs = [j \in Jobs |-> NoJob]
    /\ spider = [j \in Jobs |-> NoSpider]

InitObs ==
    /\ uploads = 0
    /\ last_upload = NoUpload
    /\ last_search = NoSearch
    /\ last_stats = NoStats

InitQdrant ==
    /\ USE_QDRANT = FALSE
    /\ qdrant_points = {}

InitChunk == chunked = NoChunked

\* EmbeddingGenerator.__init__
InitEmbed ==
    /\ cache = EmptyCache
    /\ cache_hits = 0
    /\ cache_misses = 0
    /\ embed_threads = [t \in EmbedThreads |-> IdleThread]
    /\ embed_log = EmptyLog

\* no key issued yet, every tenant's account active
InitKeys ==
    /\ api_keys = [k \in KeyIds |-> NoKey]
    /\ users = [t \in Tenants |-> "active"]
    /\ last_validate = NoValidate

InitAux ==
    /\ InitQdrant
    /\ InitChunk
    /\ InitEmbed
    /\ InitKeys

\* the process after start-up, empty collections
Init ==
    /\ documents = {}
    /\ InitCrawlVars
    /\ InitObs
    /\ InitChatVars
    /\ InitAux

\* the crawl operations, for the job slots js, the tenants ts, the submitted
\* urls seeds and the options
CrawlStepsOn(js, ts, seeds, options) ==
    \/ \E j \in js, t \in ts, u \in seeds, o \in options :
          IngestUrl(j, t, u, o[1], o[2])
    \/ \E j \in js : TaskStart(j)
    \/ \E j \in js, started \in BOOLEAN : CrawlUrl(j, started)
    \/ \E j \in js : \E r \in spider[j].frontier :
          \E len \in FetchLens(r[1]) :
            \E outcome \in PageOutcomes(NumChunks(len)) :
                Parse(j, r, len, outcome)
    \/ \E j \in js : SpiderFinished(j)
    \/ \E j \in js : SpiderShutdown(j)
    \/ \E j \in js : WaitTimeout(j)
    \/ \E j \in js : WaitReturn(j)

CrawlSteps(js) == CrawlStepsOn(js, Tenants, SeedUrls, CrawlOptions)

FileSteps ==
    \E t \in Tenants, name \in FileNames, kind \in FileKinds,
       len \in FileLens :
         \E outcome \in [1..NumChunks(len) -> FileOutcomes] :
             IngestFile(t, name, kind, len, outcome)

DeleteSteps ==
    \/ \E t \in Tenants, src \in AllSources : DeleteBySource(t, src)
    \/ \E t \in Tenants, d \in documents : DeleteById(t, d._id)

SearchSteps ==
    \E t \in Tenants, in \in SearchInputs, index_ok \in BOOLEAN :
         \E nearest \in (IF index_ok THEN Nearest(documents, t, in[2])
                                     ELSE {{}}) :
             VectorSearch(t, in[1], in[2], in[3], index_ok, nearest)

StatsSteps ==
    \/ \E t \in Tenants : GetStats(t)
    \/ GetStatus

\* crawl orchestration: concurrent crawl jobs over one store
Next == CrawlSteps(Jobs)

Spec == Init /\ [][Next]_vars

\* the api_keys collection under the key routes and widget authentication
SpecKeys == Init /\ [][KeySteps]_vars

\* one crawl of the hub site, with and without following links
HubOptions == {<<0, TRUE>>, <<1, TRUE>>, <<2, TRUE>>, <<2, FALSE>>}
SpecHub == Init /\ [][CrawlStepsOn({1}, {"A"}, {"h0"}, HubOptions)]_vars

\* A state Spec reaches: tenant A crawled u1 with max_depth 1 (job 1), tenant B
\* crawled u1 with max_depth 0 while the embedding of its first chunk failed
\* (job 2); both crawls returned
SeedDocsA ==
    StoredChunks({}, "A", "u1", "web", 2, <<"emb", "emb">>)
        \cup StoredChunks({}, "A", "u2", "web", 1, <<"emb">>)
SeedDocsB == StoredChunks({}, "B", "u1", "web", 2, <<"noemb", "emb">>)
SeedReq(j) ==
    IF j = 1 THEN [client_id |-> "A", url |-> "u1", max_depth |-> 1,
                   follow_links |-> TRUE]
    ELSE IF j = 2 THEN [client_id |-> "B", url |-> "u1", max_depth |-> 0,
                        follow_links |-> TRUE]
    ELSE NoReq
SeedSpider(j) ==
    IF j = 1 THEN [state |-> "closed", pages_crawled |-> 2,
                   documents_created |-> 3, frontier |-> {},
                   seen |-> {"u1", "u2"}, reason |-> "finished",
                   chunks_attempted |-> 3, embed_failures |-> 0]
    ELSE IF j = 2 THEN [state |-> "closed", pages_crawled |-> 1,
                        documents_created |-> 2, frontier |-> {},
                        seen |-> {"u1"}, reason |-> "finished",
                        chunks_attempted |-> 2, embed_failures |-> 1]
    ELSE NoSpider
SeededStore ==
    /\ documents = SeedDocsA \cup SeedDocsB
    /\ crawl_jobs = [j \in Jobs |-> IF j <= 2 THEN "completed" ELSE "none"]
    /\ job_req = [j \in Jobs |-> SeedReq(j)]
    /\ task = [j \in Jobs |-> IF j <= 2 THEN "done" ELSE "idle"]
    /\ db_crawl_jobs = [j \in Jobs |->
            IF j <= 2
              THEN closed(create_crawl_job(SeedReq(j).client_id, SeedReq(j).url),
                          SeedSpider(j), "finished")
              ELSE NoJob]
    /\ spider = [j \in Jobs |-> SeedSpider(j)]
    /\ InitObs
    /\ InitChatVars

InitSeeded ==
    /\ SeededStore
    /\ InitAux

\* the seeded store with either vector backend configured
InitHybrid ==
    /\ SeededStore
    /\ USE_QDRANT \in BOOLEAN
    /\ qdrant_points = {}
    /\ InitChunk
    /\ InitEmbed
    /\ InitKeys

\* search through storage/vector_search.py after a migration, with deletions
HybridNext ==
    \/ Migrate
    \/ DeleteSteps
    \/ \E t \in Tenants, in \in SearchInputs, index_ok \in BOOLEAN :
         \E nearest \in (IF index_ok /\ ~USE_QDRANT
                            THEN Nearest(documents, t, in[2]) ELSE {{}}) :
             HybridVectorSearch(t, in[1], in[2], in[3], index_ok, nearest)

SpecHybrid == InitHybrid /\ [][HybridNext]_vars

\* the document store under file ingestion, deletion and search
StoreNext ==
    \/ FileSteps
    \/ DeleteSteps
    \/ SearchSteps

SpecStore == InitSeeded /\ [][StoreNext]_vars

\* The store after tenant B crawled u1 and tenant A uploaded f1.pdf (600
\* characters, 2 chunks, both embedded); uploads counts the uploads made from
\* here on
InitUploaded ==
    /\ documents = SeedDocsB \cup
                   StoredChunks(SeedDocsB, "A", FileUrl("f1"), "pdf", 2,
                                <<"emb", "emb">>)
    /\ InitCrawlVars
    /\ uploads = 0
    /\ last_upload = [client_id |-> "A", kind |-> "pdf", len |-> 600,
                      status |-> 200, chunks_created |-> 2,
                      source_url |-> FileUrl("f1")]
    /\ last_search = NoSearch
    /\ last_stats = NoStats
    /\ InitChatVars
    /\ InitAux

\* further uploads and deletions on that store
SpecReupload == InitUploaded /\ [][FileSteps \/ DeleteSteps]_vars

\* the document store under file ingestion, deletion and statistics calls
StatsNext ==
    \/ FileSteps
    \/ DeleteSteps
    \/ StatsSteps

SpecStats == InitSeeded /\ [][StatsNext]_vars

ChatSteps ==
    \/ \E c \in ChatClients, o \in AskOptions :
            Ask(c[1], c[2], o[1], o[2], o[3])
    \/ ClearHistory
    \/ \E w \in Workers : WorkerTake(w)
    \/ \E w \in Workers : WorkerSaveUser(w)
    \/ \E w \in Workers : WorkerSaveAssistant(w)

\* the chat service of one process over a populated store
SpecChat == InitSeeded /\ [][ChatSteps]_vars

\* The process after tenant A's dashboard has chatted for n turns, every turn
\* answered and saved: the history and the record of session dash-A hold them
EarlierTurns == {19, 20}
Turns(n) ==
    [i \in 1..(2 * n) |->
        IF i % 2 = 1 THEN Msg("user", Text("question", "A", "dash-A"))
                     ELSE Msg("assistant", generate_answer(TRUE, "A", "dash-A"))]
InitLongChat ==
    /\ documents = {} /\ InitCrawlVars /\ InitObs /\ InitAux
    /\ \E n \in EarlierTurns :
          /\ conversation_history = Turns(n)
          /\ chat_sessions = [s \in SessionIds |->
                                 IF s = "dash-A" THEN Turns(n) ELSE <<>>]
    /\ asks = 0
    /\ last_prompt = NoPrompt
    /\ executor_queue = <<>>
    /\ workers = [w \in Workers |-> IdleWorker]

\* the chat service of a process that has been chatting for a while
SpecLongChat == InitLongChat /\ [][ChatSteps]_vars

\* A generator that has embedded "others" texts before, one call each: new,
\* one or two entries short of the cap, or full.
EarlierTexts == {0, CACHE_CAP - 2, CACHE_CAP - 1, CACHE_CAP}
InitGenerator ==
    /\ documents = {} /\ InitCrawlVars /\ InitObs /\ InitChatVars
    /\ InitQdrant /\ InitChunk /\ InitKeys
    /\ \E n \in EarlierTexts :
          /\ cache = [EmptyCache EXCEPT !.others = n]
          /\ cache_misses = n
    /\ cache_hits = 0
    /\ embed_threads = [t \in EmbedThreads |-> IdleThread]
    /\ embed_log = EmptyLog

\* one caller at a time
SpecEmbedSeq ==
    InitGenerator /\ [][\E text \in EmbedTexts : GenerateEmbedding(text)]_vars

\* two threads calling the same generator
SpecEmbed == InitGenerator /\ [][\E t \in EmbedThreads : EmbedStep(t)]_vars

\* a chunker of one of the configurations, about to chunk one of the texts
InitChunker ==
    /\ documents = {} /\ InitCrawlVars /\ InitObs /\ InitChatVars
    /\ InitQdrant /\ InitEmbed /\ InitKeys
    /\ \E text \in Texts, cfg \in ChunkConfigs :
          chunked = [NoChunked EXCEPT !.text = text, !.chunk_size = cfg[1],
                                      !.chunk_overlap = cfg[2]]

\* the chunker applied to every text of the bound
SpecChunk == InitChunker /\ [][ChunkText]_vars

\* the word-level splitter applied to every text of the bound
SpecWords == InitChunker /\ [][SplitByWords]_vars

\* InitSeeded is a state of Spec
SeedNotReached == ~InitSeeded

(***************************************************************************)
(* Properties                                                               *)
(***************************************************************************)
TerminalStatus == {"completed", "failed"}
HitIds(search) == { search.hits[i]._id : i \in 1..Len(search.hits) }

\* C1: whatever was ingested and deleted before, every document a
\* vector_search for tenant T returns, on the $vectorSearch path and on the
\* Python fallback path alike, is stored with client_id = T
C1_SearchReturnsOwnDocuments ==
    [][last_search' # last_search =>
          \A id \in HitIds(last_search') :
              \E d \in documents :
                  d._id = id /\ d.client_id = last_search'.client_id]_vars

\* a search on the accelerated path returned documents while the other
\* tenant holds embedded documents, after an upload and a deletion
C1_Witness ==
    /\ last_search.path = "atlas"
    /\ last_search.hits # <<>>
    /\ \E d \in documents :
          d.client_id \in Tenants \ {last_search.client_id} /\ d.embedding # <<>>
    /\ \E d \in documents : d.source_type \in FileKinds
    /\ Cardinality({ d \in documents : d.source_type = "web" }) < 5

\* C2: the conversation history placed in the prompt of a query holds only
\* messages of earlier turns of the asking tenant's own session
C2_PromptHistoryOwnSession ==
    \A i \in 1..Len(last_prompt.history) :
        /\ last_prompt.history[i].content.tenant = last_prompt.client_id
        /\ last_prompt.history[i].content.session = last_prompt.session_id

\* C3: every stats result is computed for a tenant and only from that
\* tenant's chunks; a call that carries no tenant is not evaluated
C3_StatsTenantScoped ==
    [][last_stats' # last_stats =>
          /\ last_stats'.client_id \in Tenants
          /\ last_stats'.total_documents =
                Cardinality({ d \in documents :
                                d.client_id = last_stats'.client_id })
          /\ \A s \in last_stats'.sources :
                \E d \in documents :
                    d.client_id = last_stats'.client_id /\ d.source_url = s.url]_vars

\* C4: an upload of a PDF or DOCX with at least 100 characters of text is
\* accepted and every chunk it stores carries the uploader's client_id and
\* the file kind as source_type
C4_UploadStoresUnderUploader ==
    [][(uploads' = uploads + 1 /\ last_upload'.len >= MIN_CONTENT) =>
          /\ last_upload'.status = 200
          /\ last_upload'.chunks_created = Cardinality(documents' \ documents)
          /\ \A d \in documents' \ documents :
                /\ d.client_id = last_upload'.client_id
                /\ d.source_type = last_upload'.kind]_vars

\* C5: a page that is already stored for the crawling tenant is skipped: the
\* parse stores nothing and counts nothing, and a spider that closes with
\* reason finished leaves its job completed with the pages it counted, so a
\* re-crawl of a stored page ends completed with pages_crawled = 0
C5_RecrawlStoresNothing ==
    [][\A j \in Jobs :
          /\ \A r \in spider[j].frontier \ spider'[j].frontier :
                (\E d \in documents : /\ d.client_id = job_req[j].client_id
                                      /\ d.source_url = r[1])
                    => /\ documents' = documents
                       /\ spider'[j].pages_crawled = spider[j].pages_crawled
                       /\ spider'[j].documents_created = spider[j].documents_created
          /\ (spider[j].state = "open" /\ spider'[j].state = "closed"
                                       /\ spider'[j].reason = "finished")
                => /\ db_crawl_jobs'[j].status = "completed"
                   /\ db_crawl_jobs'[j].pages_crawled = spider[j].pages_crawled]_vars

\* two jobs crawled the same page of one tenant: the first stored it, the
\* second ended completed with no page crawled
C5_Witness ==
    \E i, j \in Jobs :
        /\ i # j
        /\ job_req[i].client_id = job_req[j].client_id
        /\ job_req[i].url = job_req[j].url
        /\ db_crawl_jobs[i].status = "completed"
        /\ db_crawl_jobs[i].pages_crawled >= 1
        /\ db_crawl_jobs[j].status = "completed"
        /\ db_crawl_jobs[j].pages_crawled = 0
        /\ crawl_jobs[j] = "completed"
        /\ \E d \in documents : /\ d.client_id = job_req[j].client_id
                                /\ d.source_url = job_req[j].url

\* C6: whatever the interleaving of concurrent crawls, no chunk of a page is
\* stored twice for a tenant
C6_OneSetOfChunks ==
    \A d, e \in documents :
        (/\ d.client_id = e.client_id
         /\ d.source_url = e.source_url
         /\ d.chunk_index = e.chunk_index) => d = e

\* two spiders of one tenant were open on the same url at once; one stored
\* the page, the other visited it and stored nothing
C6_Witness ==
    \E i, j \in Jobs :
        /\ i # j
        /\ job_req[i].client_id = job_req[j].client_id
        /\ job_req[i].url = job_req[j].url
        /\ spider[i].state = "open" /\ spider[j].state = "open"
        /\ spider[i].pages_crawled >= 1
        /\ spider[j].pages_crawled = 0 /\ spider[j].frontier = {}
        /\ \E d \in documents : /\ d.client_id = job_req[j].client_id
                                /\ d.source_url = job_req[j].url

\* C7: the status of a job moves only queued -> running -> completed or
\* failed; the durable record appears as running, while the job is running,
\* and then becomes terminal
C7_StatusOrder ==
    [][\A j \in Jobs :
          /\ \/ crawl_jobs'[j] = crawl_jobs[j]
             \/ crawl_jobs[j] = "none" /\ crawl_jobs'[j] = "queued"
             \/ crawl_jobs[j] = "queued" /\ crawl_jobs'[j] = "running"
             \/ crawl_jobs[j] = "running" /\ crawl_jobs'[j] \in TerminalStatus
          /\ \/ db_crawl_jobs'[j].status = db_crawl_jobs[j].status
             \/ /\ db_crawl_jobs[j].status = "none"
                /\ db_crawl_jobs'[j].status = "running"
                /\ crawl_jobs[j] = "running"
             \/ /\ db_crawl_jobs[j].status = "running"
                /\ db_crawl_jobs'[j].status \in TerminalStatus]_vars

\* one job went through to completed and another through to failed
C7_Witness ==
    \E i, j \in Jobs :
        /\ crawl_jobs[i] = "completed" /\ db_crawl_jobs[i].status = "completed"
        /\ crawl_jobs[j] = "failed" /\ db_crawl_jobs[j].status = "failed"

\* C8: once a job is completed or failed, in the process or in the durable
\* record, no step changes its status, counters or error message
C8_TerminalImmutable ==
    [][\A j \in Jobs :
          /\ crawl_jobs[j] \in TerminalStatus => crawl_jobs'[j] = crawl_jobs[j]
          /\ db_crawl_jobs[j].status \in TerminalStatus
                => db_crawl_jobs'[j] = db_crawl_jobs[j]]_vars

\* the waiting task timed out (failed), the spider closed later (completed)
\* and a further job ran afterwards
C8_Witness ==
    \E i, j \in Jobs :
        /\ i # j
        /\ crawl_jobs[i] = "failed" /\ task[i] = "done"
        /\ db_crawl_jobs[i].status = "completed" /\ spider[i].state = "closed"
        /\ db_crawl_jobs[j].status \in TerminalStatus

\* C9: a closed spider has left its job completed exactly when the close
\* reason was finished, and otherwise failed with an error message recorded
C9_CloseRecordsOutcome ==
    \A j \in Jobs :
        spider[j].state = "closed" =>
            IF spider[j].reason = "finished"
              THEN db_crawl_jobs[j].status = "completed"
              ELSE /\ db_crawl_jobs[j].status = "failed"
                   /\ db_crawl_jobs[j].error_message # None

\* C10: a job whose task has returned and whose spider is not running, so
\* that nothing further will act on it, has a terminal durable record
C10_JobLeavesRunning ==
    \A j \in Jobs :
        (task[j] = "done" /\ spider[j].state \in {"none", "closed"})
            => db_crawl_jobs[j].status \in TerminalStatus

\* C11: while a crawl is running, the durable job record's pages_crawled and
\* documents_created equal the spider's running totals after every page
C11_CountersPerPage ==
    \A j \in Jobs :
        (spider[j].state = "open" /\ db_crawl_jobs[j].status = "running")
            => /\ db_crawl_jobs[j].pages_crawled = spider[j].pages_crawled
               /\ db_crawl_jobs[j].documents_created = spider[j].documents_created

\* C12: every chunk a search returns for tenant T comes from a source that
\* is stored for T, so that once delete_by_url(T, s) has returned no search,
\* on any backend, returns a chunk of s
C12_DeletedSourceNotReturned ==
    [][last_search' # last_search =>
          \A i \in 1..Len(last_search'.hits) :
              \E d \in documents :
                  /\ d.client_id = last_search'.client_id
                  /\ d.source_url = last_search'.hits[i].source_url]_vars

\* the documents of tenant t with an embedding that score at least min_score
\* against q
Qualifying(docs, t, q, min_score) ==
    { d \in docs : /\ d.client_id = t
                   /\ d.embedding # <<>>
                   /\ _cosine_similarity(q, d.embedding) >= min_score }

\* hits is a linear-scan answer: the up-to-limit best qualifying documents
\* with their cosine scores, best first
IsLinearScanResult(hits, docs, t, q, limit, min_score) ==
    LET qual == Qualifying(docs, t, q, min_score)
        n == Len(hits)
    IN /\ n = (IF Cardinality(qual) < limit THEN Cardinality(qual) ELSE limit)
       /\ \A i, j \in 1..n : i # j => hits[i]._id # hits[j]._id
       /\ \A i \in 1..n :
            \E d \in qual :
                /\ d._id = hits[i]._id
                /\ hits[i].similarity_score = _cosine_similarity(q, d.embedding)
       /\ \A i, j \in 1..n :
            i < j => hits[i].similarity_score >= hits[j].similarity_score
       /\ \A d \in qual :
            (\A i \in 1..n : hits[i]._id # d._id)
                => \A i \in 1..n :
                      hits[i].similarity_score >= _cosine_similarity(q, d.embedding)

\* C13: a search call whose attempt on the accelerated index raised returns
\* the result of the linear cosine scan over the tenant's stored vectors
C13_IndexErrorFallsBack ==
    [][(last_search' # last_search /\ last_search'.index_error) =>
          IsLinearScanResult(last_search'.hits, documents,
                             last_search'.client_id, last_search'.q,
                             last_search'.limit, last_search'.min_score)]_vars

\* C14: the fallback search returns exactly the up-to-k highest-scoring
\* documents of the tenant that have an embedding and score >= min_score, in
\* non-increasing score order, and the sources list keeps that order
C14_FallbackTopK ==
    [][(last_search' # last_search /\ last_search'.path = "python") =>
          /\ IsLinearScanResult(last_search'.hits, documents,
                                last_search'.client_id, last_search'.q,
                                last_search'.limit, last_search'.min_score)
          /\ Len(last_search'.sources) = Len(last_search'.hits)
          /\ \A i \in 1..Len(last_search'.hits) :
                /\ last_search'.sources[i].number = i
                /\ last_search'.sources[i].id = last_search'.hits[i]._id
                /\ last_search'.sources[i].score =
                      last_search'.hits[i].similarity_score]_vars

\* a fallback search that had to rank and to truncate: more documents
\* qualified than the limit, and the two returned differ in score
C14_Witness ==
    /\ last_search.path = "python"
    /\ last_search.limit >= 2
    /\ Len(last_search.hits) = last_search.limit
    /\ last_search.hits[1].similarity_score > last_search.hits[2].similarity_score
    /\ Cardinality(Qualifying(documents, last_search.client_id, last_search.q,
                              last_search.min_score)) > last_search.limit

\* the whitespace-delimited tokens of the chunked text all fit a chunk
TokensFit ==
    \A k \in 1..Len(split(chunked.text)) :
        Len(split(chunked.text)[k]) <= chunked.chunk_size

\* C15: when no whitespace-delimited token of the input text is longer than
\* chunk_size, every chunk chunk_text emits is at most chunk_size characters
\* long
C15_ChunkWithinSize ==
    (chunked.done /\ TokensFit) =>
        \A i \in 1..Len(chunked.chunks) :
            Len(chunked.chunks[i].text) <= chunked.chunk_size

IsSuffix(t, s) ==
    Len(t) <= Len(s) /\ SubSeq(s, Len(s) - Len(t) + 1, Len(s)) = t

\* C16: the text a chunk carries over from the chunk before it has at most
\* chunk_overlap characters and, when non-empty, is a suffix of that chunk
C16_OverlapBounded ==
    \A i \in 2..Len(chunked.chunks) :
        LET carried == chunked.chunks[i].carried
        IN /\ Len(carried) <= chunked.chunk_overlap
           /\ carried # <<>> => IsSuffix(carried, chunked.chunks[i - 1].text)
\* C17: when generate_embedding is called twice in a row with the same text,
\* the second call returns the vector the first returned and is a cache hit:
\* cache_hits goes up by one, cache_misses stays, the provider is not invoked
C17_SecondCallIsHit ==
    LET first == embed_log.prev
        second == embed_log.last
    IN (first.text # None /\ first.text = second.text) =>
          /\ second.vector = first.vector
          /\ second.hits[2] = second.hits[1] + 1
          /\ second.misses[2] = second.misses[1]
          /\ ~second.provider

\* C18: the cache never holds more than CACHE_CAP entries, and once a call
\* has embedded a text through the provider that text is cached, an older
\* entry having been evicted when the cache was full
C18_CapWithEviction ==
    /\ CacheLen(cache) <= CACHE_CAP
    /\ embed_log.last.provider =>
           cache_key(embed_log.last.text) \in DOMAIN cache.entries

\* C19: under concurrent calls on one generator the cache never exceeds its
\* cap, every entry holds the vector of its own text, and once no call is in
\* progress cache_hits + cache_misses counts the completed calls (the
\* cache.others earlier ones included)
C19_ConcurrentSafe ==
    /\ CacheLen(cache) <= CACHE_CAP
    /\ \A x \in EmbedTexts :
          cache_key(x) \in DOMAIN cache.entries =>
              cache.entries[cache_key(x)] = _embed(x)
    /\ (\A t \in EmbedThreads : embed_threads[t].pc = "idle") =>
          cache_hits + cache_misses = cache.others + embed_log.completed
\* C20: in every session of chat_sessions the messages are stored turn after
\* turn: a user message at every odd position, and after it the assistant
\* reply of the same turn
C20_TurnsInOrder ==
    \A sid \in SessionIds :
        \A i \in 1..Len(chat_sessions[sid]) :
            LET m == chat_sessions[sid][i]
            IN IF i % 2 = 1
                 THEN m.role = "user"
                 ELSE /\ m.role = "assistant"
                      /\ m.content.tenant = chat_sessions[sid][i - 1].content.tenant
\* C21: the pipeline's conversation history never holds more than the last
\* M = 20 turns (a question and its answer each), older turns being discarded
C21_HistoryBounded ==
    LET M == 20
    IN Len(conversation_history) <= 2 * M
IsErrorText(m) == m.content.kind = "Error generating answer"

\* C22: the error text of a turn whose LLM call failed is carried neither into
\* the stored conversation history nor into the prompt of a later ask
C22_ErrorNotCarried ==
    /\ \A i \in 1..Len(conversation_history) :
          ~IsErrorText(conversation_history[i])
    /\ \A i \in 1..Len(last_prompt.history) :
          ~IsErrorText(last_prompt.history[i])
\* C23: a chunk whose embedding failed during a crawl is skipped: it is not
\* stored and not counted, so the spider's documents_created stays at or below
\* the chunks attempted minus the embedding failures
C23_FailedEmbeddingSkipped ==
    \A j \in Jobs :
        spider[j].documents_created
            <= spider[j].chunks_attempted - spider[j].embed_failures
\* C24: in a crawl with max_depth d no page is parsed at a depth above d; a
\* parsed page enqueues at most 10 links, each of the domain of that page and
\* one level deeper; nothing is enqueued when follow_links is false or the
\* page was skipped
C24_CrawlWithinLimits ==
    [][\A j \in Jobs :
         LET parsed == spider[j].frontier \ spider'[j].frontier
             enqueued == spider'[j].frontier \ spider[j].frontier
             req == job_req[j]
             skipped == spider'[j].pages_crawled = spider[j].pages_crawled
         IN spider[j].state = "open" =>
              /\ \A r \in parsed : r[2] <= req.max_depth
              /\ Cardinality(enqueued) <= 10
              /\ \A e \in enqueued :
                    \E r \in parsed : /\ netloc(e[1]) = netloc(r[1])
                                      /\ e[2] = r[2] + 1
              /\ (~req.follow_links \/ skipped) => enqueued = {}]_vars

\* the hub page, with its 12 internal links, has been parsed and its links
\* enqueued, and a page found at depth 1 has enqueued pages at depth 2
C24_Witness ==
    \E j \in Jobs :
        /\ spider[j].state = "open"
        /\ job_req[j].max_depth = 2
        /\ Cardinality(spider[j].frontier) > 10
        /\ \E r \in spider[j].frontier : r[2] = 2
\* C25: validate_api_key accepts a key only when a key document holds it with
\* status active; in particular a revoked key is refused until regenerated
C25_RevokedKeyRefused ==
    [][(last_validate' # last_validate /\ last_validate'.client_id # None) =>
          \E k \in KeyIds : /\ api_keys[k].key = last_validate'.key
                            /\ api_keys[k].status = "active"]_vars
\* C26: uploading a file again under the same name stores nothing new: the
\* store holds one set of chunks per (tenant, file://<filename>)
C26_ReuploadIsNoOp ==
    \A name \in FileNames : \A d, e \in documents :
        (/\ d.source_url = FileUrl(name) /\ e.source_url = FileUrl(name)
         /\ d.client_id = e.client_id
         /\ d.chunk_index = e.chunk_index) => d._id = e._id
\* C27: a chat_sessions record holds the messages of one tenant only: no two
\* messages of one session_id come from chats of different tenants
C27_SessionOfOneTenant ==
    \A sid \in SessionIds : \A i, j \in 1..Len(chat_sessions[sid]) :
        chat_sessions[sid][i].content.tenant =
            chat_sessions[sid][j].content.tenant
\* the last n words of a chunk, joined by blanks; nothing when n = 0
LastWords(chunk, n) ==
    LET words == split(chunk)
    IN IF n = 0 THEN <<>>
       ELSE IF n >= Len(words) THEN join(words)
       ELSE join(SubSeq(words, Len(words) - n + 1, Len(words)))

\* C28: in word-level splitting the words carried from a chunk into the next
\* are the last chunk_overlap \div 10 words of that chunk: no word when
\* chunk_overlap < 10, and never more than chunk_overlap \div 10
C28_WordOverlap ==
    chunked.done =>
        \A i \in 2..Len(chunked.chunks) :
            chunked.chunks[i].carried =
                LastWords(chunked.chunks[i - 1].text,
                          chunked.chunk_overlap \div 10)
\* C29: the in-process entry and the durable record of one crawl agree on
\* the outcome: an entry that is completed has a completed record, and an
\* entry that is failed never has a completed record
C29_JobRecordsAgree ==
    \A j \in Jobs :
        /\ crawl_jobs[j] = "completed" => db_crawl_jobs[j].status = "completed"
        /\ crawl_jobs[j] = "failed" => db_crawl_jobs[j].status # "completed"
\* the words of the chunks, chunk after chunk
RECURSIVE ChunkWords(_, _)
ChunkWords(chunks, i) ==
    IF i > Len(chunks) THEN <<>>
    ELSE split(chunks[i].text) \o ChunkWords(chunks, i + 1)

\* words[i..] can be read off all[j..] from left to right
RECURSIVE InOrder(_, _, _, _)
InOrder(words, i, all, j) ==
    IF i > Len(words) THEN TRUE
    ELSE IF j > Len(all) THEN FALSE
    ELSE IF words[i] = all[j] THEN InOrder(words, i + 1, all, j + 1)
    ELSE InOrder(words, i, all, j + 1)

\* C30: chunk_text loses no content: for a non-empty text every word of the
\* cleaned text is in some chunk, the chunks hold the words in their original
\* order, and the chunks are numbered 0..n-1 with total_chunks = n
C30_NoContentLost ==
    (chunked.done /\ strip(chunked.text) # <<>>) =>
        LET words == split(_clean_text(chunked.text))
            chunks == chunked.chunks
            n == Len(chunks)
        IN /\ \A k \in 1..Len(words) : \E i \in 1..n :
                   \E m \in 1..Len(split(chunks[i].text)) :
                       split(chunks[i].text)[m] = words[k]
           /\ InOrder(words, 1, ChunkWords(chunks, 1), 1)
           /\ \A i \in 1..n : /\ chunks[i].chunk_index = i - 1
                               /\ chunks[i].total_chunks = n

\* a text of three words or more has been cut into several chunks
C30_Witness ==
    /\ chunked.done
    /\ Len(split(chunked.text)) >= 3
    /\ Len(chunked.chunks) >= 2
    /\ chunked.chunks[2].chunk_index = 1
====
